---------------------------- MODULE Spec2Model ----------------------------
(***************************************************************************)
(* Model of the Rannacher-Turek polynomial basis                           *)
(* (source/base/polynomials_rannacher_turek.cc) and of the child-patch     *)
(* block list driver (tests/multigrid block_list test).                    *)
(*                                                                         *)
(* Fixed-point conventions for the polynomial basis (doubles are modelled  *)
(* as exact rationals with a fixed denominator):                           *)
(*   - a point coordinate X stands for x = X / 10                          *)
(*   - a value V stands for v = V / 400                                    *)
(*   - a gradient component G stands for g = G / 10                        *)
(*   - a second derivative is stored unscaled                              *)
(* so that 0.75 -> 300, 2.5 x -> 100 X, 1.5 y -> 60 Y,                     *)
(* 1.5 (x^2 - y^2) -> 6 (X^2 - Y^2), and -2.5 + 3 x -> -25 + 3 X.          *)
(*                                                                         *)
(* The library's debug-mode contract checks are modelled as active checks: *)
(* a failed check ends the call with the named exception and no result.    *)
(***************************************************************************)
EXTENDS Integers, Sequences, FiniteSets, TLC

\* ------------------------------------------------------------------ bounds
\* Triangulations have 1 .. MaxCoarse cells on the coarse level.
MaxCoarse == 3
\* Direct calls of make_child_patches take meshes of 1 .. MaxBuildCoarse
\* coarse cells.
MaxBuildCoarse == 2
\* Coordinates (in tenths) range over -CoordLo .. CoordHi and the samples.
CoordLo == 2
CoordHi == 3
\* Basis indices passed by callers range over 0 .. MaxIndex.
MaxIndex == 5
\* A pattern used directly has MaxCols columns and accepts MaxAdds adds.
MaxCols == 3
MaxAdds == 3
\* At most MaxObjs basis objects are allocated, held by MaxObjs pointers.
MaxObjs == 3
MaxThreads == 2
MaxSize == 2

\* The coordinates of the sample points (0, 0), (0.3, -0.2) and (1, 1).
SampleCoords == {-2, 0, 3, 10}
Coords == (-CoordLo .. CoordHi) \cup SampleCoords
Dims == {1, 2, 3}
Indices == 0 .. MaxIndex
\* Content of a caller's output buffer before the call (every component).
Fills == {0, 1}

\* Points of a dim-dimensional reference cell.  The basis reads the
\* coordinates only for dim = 2; the other dimensions get the diagonal.
Points(d) ==
  IF d = 2 THEN [1 .. 2 -> Coords]
  ELSE {[k \in 1 .. d |-> c] : c \in Coords}

\* The points evaluate is called at: it hands the point on to the
\* single-function operations, which are called on all of Points(d).
EvalPoints(d) == {p \in Points(d) : \A k \in 1 .. d : p[k] \in SampleCoords}

VARIABLES
  op,        \* the last operation called on the basis
  dim,       \* its template argument
  idx,       \* its basis index argument (0 when it takes none)
  pt,        \* its point argument (<<>> when it takes none)
  exc,       \* "none", or the exception the call ended with
  exc_args,  \* the arguments of that exception
  ret,       \* the value returned (<<>> when nothing was returned)
  bufs_in,   \* evaluate: the five output buffers as passed in
  bufs,      \* evaluate: the five output buffers after the call
  invoked    \* evaluate: the buffers whose compute function was invoked

polyvars == <<op, dim, idx, pt, exc, exc_args, ret, bufs_in, bufs, invoked>>

VARIABLES
  mesh,      \* test_block_list: the triangulation and element under test
  pc,        \* test_block_list: the block to run next ("ff", "tf", "tt")
  bl,        \* the sparsity pattern of the block run last
  deallog    \* the patches printed so far, one record per block

patchvars == <<mesh, pc, bl, deallog>>

VARIABLES
  mat,       \* a sparsity pattern used directly through its interface
  mat_log,   \* the (row, col) pairs it accepted, in the order of the calls
  mat_call   \* the last call made on it, with its outcome

matvars == <<mat, mat_log, mat_call>>

VARIABLES
  mcp        \* a direct call of make_child_patches, with its outcome

VARIABLES
  heap,      \* the basis objects allocated so far, dead ones included
  ptr,       \* the owning pointers: the object each one holds, 0 for none
  used       \* the last member call made through a pointer, with its result

clonevars == <<heap, ptr, used>>

VARIABLES
  lin        \* two basis functions sampled at three points

VARIABLES
  obj,       \* one basis object shared by all threads
  thr        \* per thread: the member call it is in and the call's locals

concvars == <<obj, thr>>

VARIABLES
  prec,      \* the Epetra operator held by a PreconditionBase
  hist,      \* what the calls made on it so far amount to
  pcall      \* the last call made on it, with its outcome

precvars == <<prec, hist, pcall>>

\* The variables of the components added after the basis and the driver.
restvars == <<matvars, mcp, clonevars, lin, concvars, precvars>>

\* -------------------------------------------------------------- outcomes
Return(v) == [exc |-> "none", args |-> <<>>, val |-> v]
Raise(e, a) == [exc |-> e, args |-> a, val |-> <<>>]

\* Tensor<rank, dim> with every component equal to f.
RECURSIVE FillTensor(_, _, _)
FillTensor(rank, d, f) ==
  IF rank = 0 THEN f ELSE [k \in 1 .. d |-> FillTensor(rank - 1, d, f)]

\* A default-constructed Tensor<rank, dim>.
ZeroTensor(rank, d) == FillTensor(rank, d, 0)

\* ------------------------------------------------------------ the basis
\* ScalarPolynomialsBase<dim>(2, GeometryInfo<dim>::faces_per_cell): n().
n_pols(d) == 2 * d

\* The constructor without its dimension check.
ctor_unchecked(d) == Return(n_pols(d))

\* PolynomialsRannacherTurek<dim>::PolynomialsRannacherTurek()
ctor(d) ==
  IF d # 2 THEN Raise("ExcNotImplemented", <<>>)
  ELSE Return(n_pols(d))

\* compute_value whose branch for i = 1 repeats the polynomial of i = 0.
compute_value_repeated_branch(d, i, p) ==
  IF d # 2 THEN Raise("ExcNotImplemented", <<>>)
  ELSE IF i = 0 \/ i = 1 THEN
    Return(300 - 100 * p[1] + 60 * p[2] + 6 * (p[1] * p[1] - p[2] * p[2]))
  ELSE IF i = 2 THEN
    Return(300 + 60 * p[1] - 100 * p[2] - 6 * (p[1] * p[1] - p[2] * p[2]))
  ELSE IF i = 3 THEN
    Return(-100 + 60 * p[1] - 20 * p[2] - 6 * (p[1] * p[1] - p[2] * p[2]))
  ELSE Raise("ExcNotImplemented", <<>>)

\* compute_value with the sign of the quadratic term of i = 3 flipped.
compute_value_wrong_sign(d, i, p) ==
  IF d # 2 THEN Raise("ExcNotImplemented", <<>>)
  ELSE IF i = 0 THEN
    Return(300 - 100 * p[1] + 60 * p[2] + 6 * (p[1] * p[1] - p[2] * p[2]))
  ELSE IF i = 1 THEN
    Return(-100 - 20 * p[1] + 60 * p[2] + 6 * (p[1] * p[1] - p[2] * p[2]))
  ELSE IF i = 2 THEN
    Return(300 + 60 * p[1] - 100 * p[2] - 6 * (p[1] * p[1] - p[2] * p[2]))
  ELSE IF i = 3 THEN
    Return(-100 + 60 * p[1] - 20 * p[2] + 6 * (p[1] * p[1] - p[2] * p[2]))
  ELSE Raise("ExcNotImplemented", <<>>)

\* compute_value returning 0 for an unknown index instead of failing.
compute_value_default_zero(d, i, p) ==
  IF d # 2 THEN Raise("ExcNotImplemented", <<>>)
  ELSE IF i = 0 THEN
    Return(300 - 100 * p[1] + 60 * p[2] + 6 * (p[1] * p[1] - p[2] * p[2]))
  ELSE IF i = 1 THEN
    Return(-100 - 20 * p[1] + 60 * p[2] + 6 * (p[1] * p[1] - p[2] * p[2]))
  ELSE IF i = 2 THEN
    Return(300 + 60 * p[1] - 100 * p[2] - 6 * (p[1] * p[1] - p[2] * p[2]))
  ELSE IF i = 3 THEN
    Return(-100 + 60 * p[1] - 20 * p[2] - 6 * (p[1] * p[1] - p[2] * p[2]))
  ELSE Return(0)

\* compute_value whose branch for i = 1 has the constant term of i = 0.
compute_value_shifted_constant(d, i, p) ==
  IF d # 2 THEN Raise("ExcNotImplemented", <<>>)
  ELSE IF i = 0 THEN
    Return(300 - 100 * p[1] + 60 * p[2] + 6 * (p[1] * p[1] - p[2] * p[2]))
  ELSE IF i = 1 THEN
    Return(300 - 20 * p[1] + 60 * p[2] + 6 * (p[1] * p[1] - p[2] * p[2]))
  ELSE IF i = 2 THEN
    Return(300 + 60 * p[1] - 100 * p[2] - 6 * (p[1] * p[1] - p[2] * p[2]))
  ELSE IF i = 3 THEN
    Return(-100 + 60 * p[1] - 20 * p[2] - 6 * (p[1] * p[1] - p[2] * p[2]))
  ELSE Raise("ExcNotImplemented", <<>>)

\* compute_value with the polynomials of i = 0 and i = 1 exchanged.
compute_value_faces_exchanged(d, i, p) ==
  IF d # 2 THEN Raise("ExcNotImplemented", <<>>)
  ELSE IF i = 0 THEN
    Return(-100 - 20 * p[1] + 60 * p[2] + 6 * (p[1] * p[1] - p[2] * p[2]))
  ELSE IF i = 1 THEN
    Return(300 - 100 * p[1] + 60 * p[2] + 6 * (p[1] * p[1] - p[2] * p[2]))
  ELSE IF i = 2 THEN
    Return(300 + 60 * p[1] - 100 * p[2] - 6 * (p[1] * p[1] - p[2] * p[2]))
  ELSE IF i = 3 THEN
    Return(-100 + 60 * p[1] - 20 * p[2] - 6 * (p[1] * p[1] - p[2] * p[2]))
  ELSE Raise("ExcNotImplemented", <<>>)

\* PolynomialsRannacherTurek<dim>::compute_value(i, p)
compute_value(d, i, p) ==
  IF d # 2 THEN Raise("ExcNotImplemented", <<>>)
  ELSE IF i = 0 THEN
    Return(300 - 100 * p[1] + 60 * p[2] + 6 * (p[1] * p[1] - p[2] * p[2]))
  ELSE IF i = 1 THEN
    Return(-100 - 20 * p[1] + 60 * p[2] + 6 * (p[1] * p[1] - p[2] * p[2]))
  ELSE IF i = 2 THEN
    Return(300 + 60 * p[1] - 100 * p[2] - 6 * (p[1] * p[1] - p[2] * p[2]))
  ELSE IF i = 3 THEN
    Return(-100 + 60 * p[1] - 20 * p[2] - 6 * (p[1] * p[1] - p[2] * p[2]))
  ELSE Raise("ExcNotImplemented", <<>>)

\* compute_grad with the y-components of i = 2 and i = 3 exchanged.
compute_grad_swapped(d, i, p) ==
  IF d = 2 THEN
    IF i = 0 THEN Return(<<-25 + 3 * p[1], 15 - 3 * p[2]>>)
    ELSE IF i = 1 THEN Return(<<-5 + 3 * p[1], 15 - 3 * p[2]>>)
    ELSE IF i = 2 THEN Return(<<15 - 3 * p[1], -5 + 3 * p[2]>>)
    ELSE IF i = 3 THEN Return(<<15 - 3 * p[1], -25 + 3 * p[2]>>)
    ELSE Raise("ExcNotImplemented", <<>>)
  ELSE Raise("ExcNotImplemented", <<>>)

\* PolynomialsRannacherTurek<dim>::compute_grad(i, p)
compute_grad(d, i, p) ==
  IF d = 2 THEN
    IF i = 0 THEN Return(<<-25 + 3 * p[1], 15 - 3 * p[2]>>)
    ELSE IF i = 1 THEN Return(<<-5 + 3 * p[1], 15 - 3 * p[2]>>)
    ELSE IF i = 2 THEN Return(<<15 - 3 * p[1], -25 + 3 * p[2]>>)
    ELSE IF i = 3 THEN Return(<<15 - 3 * p[1], -5 + 3 * p[2]>>)
    ELSE Raise("ExcNotImplemented", <<>>)
  ELSE Raise("ExcNotImplemented", <<>>)

\* compute_grad_grad with the matrix of i = 0 copied to i = 2.
compute_grad_grad_same_sign(d, i, p) ==
  IF d = 2 THEN
    IF i = 0 THEN Return(<<<<3, 0>>, <<0, -3>>>>)
    ELSE IF i = 1 THEN Return(<<<<3, 0>>, <<0, -3>>>>)
    ELSE IF i = 2 THEN Return(<<<<3, 0>>, <<0, -3>>>>)
    ELSE IF i = 3 THEN Return(<<<<-3, 0>>, <<0, 3>>>>)
    ELSE Return(ZeroTensor(2, d))
  ELSE Raise("ExcNotImplemented", <<>>)

\* PolynomialsRannacherTurek<dim>::compute_grad_grad(i, p): the chain of
\* index tests has no final else, so any other index falls through to the
\* return of the default-constructed (zero) tensor.
compute_grad_grad(d, i, p) ==
  IF d = 2 THEN
    IF i = 0 THEN Return(<<<<3, 0>>, <<0, -3>>>>)
    ELSE IF i = 1 THEN Return(<<<<3, 0>>, <<0, -3>>>>)
    ELSE IF i = 2 THEN Return(<<<<-3, 0>>, <<0, 3>>>>)
    ELSE IF i = 3 THEN Return(<<<<-3, 0>>, <<0, 3>>>>)
    ELSE Return(ZeroTensor(2, d))
  ELSE Raise("ExcNotImplemented", <<>>)

\* PolynomialsRannacherTurek<dim>::compute_derivative<order>(i, p)
compute_derivative(order, d, i, p) == Return(ZeroTensor(order, d))


\* ------------------------------------------------------------- evaluate
BufNames ==
  {"values", "grads", "grad_grads", "third_derivatives", "fourth_derivatives"}

\* The tensor rank of the entries of each buffer.
BufRank(name) ==
  CASE name = "values" -> 0
    [] name = "grads" -> 1
    [] name = "grad_grads" -> 2
    [] name = "third_derivatives" -> 3
    [] name = "fourth_derivatives" -> 4

\* A guarded assignment that computes r whether or not the buffer is
\* empty and stores it only when it is not.
Store_computing_always(st, name, i, r) ==
  IF st.exc # "none" THEN st
  ELSE IF r.exc # "none"
    THEN [st EXCEPT !.exc = r.exc, !.args = r.args,
                    !.invoked = @ \cup {name}]
  ELSE IF Len(st.bufs[name]) = 0 THEN [st EXCEPT !.invoked = @ \cup {name}]
  ELSE [st EXCEPT !.bufs[name][i + 1] = r.val, !.invoked = @ \cup {name}]

\* One guarded assignment of the loop body, buffer[i] = r, in a run that
\* may already have ended with an exception; entry i is at position i + 1.
\* The compute function that yields r is invoked only inside the guard.
Store(st, name, i, r) ==
  IF st.exc # "none" THEN st
  ELSE IF Len(st.bufs[name]) = 0 THEN st
  ELSE IF r.exc # "none"
    THEN [st EXCEPT !.exc = r.exc, !.args = r.args,
                    !.invoked = @ \cup {name}]
  ELSE [st EXCEPT !.bufs[name][i + 1] = r.val, !.invoked = @ \cup {name}]

\* The loop body with the gradient taken for basis function 0.
EvalBody_stale_index(d, i, p, st) ==
  LET s1 == Store(st, "values", i, compute_value(d, i, p))
      s2 == Store(s1, "grads", i, compute_grad(d, 0, p))
      s3 == Store(s2, "grad_grads", i, compute_grad_grad(d, i, p))
      s4 == Store(s3, "third_derivatives", i, compute_derivative(3, d, i, p))
      s5 == Store(s4, "fourth_derivatives", i, compute_derivative(4, d, i, p))
  IN s5

\* The body of the loop of evaluate for one i.
EvalBody(d, i, p, st) ==
  LET s1 == Store(st, "values", i, compute_value(d, i, p))
      s2 == Store(s1, "grads", i, compute_grad(d, i, p))
      s3 == Store(s2, "grad_grads", i, compute_grad_grad(d, i, p))
      s4 == Store(s3, "third_derivatives", i, compute_derivative(3, d, i, p))
      s5 == Store(s4, "fourth_derivatives", i, compute_derivative(4, d, i, p))
  IN s5

\* for (unsigned int i = from; i < to; ++i) { body }
RECURSIVE EvalLoop(_, _, _, _, _)
EvalLoop(d, from, to, p, st) ==
  IF from >= to \/ st.exc # "none" THEN st
  ELSE EvalLoop(d, from + 1, to, p, EvalBody(d, from, p, st))

\* The five size checks at the head of evaluate, in order: the first
\* buffer that is neither empty nor of size n_pols, or "none".
FirstMismatch(d, b) ==
  LET bad(name) == Len(b[name]) # n_pols(d) /\ Len(b[name]) # 0
  IN IF bad("values") THEN "values"
     ELSE IF bad("grads") THEN "grads"
     ELSE IF bad("grad_grads") THEN "grad_grads"
     ELSE IF bad("third_derivatives") THEN "third_derivatives"
     ELSE IF bad("fourth_derivatives") THEN "fourth_derivatives"
     ELSE "none"

Started(b) == [exc |-> "none", args |-> <<>>, bufs |-> b, invoked |-> {}]

\* evaluate with the loop stopping one entry early.
evaluate_short(d, p, b) ==
  LET m == FirstMismatch(d, b)
  IN IF m # "none"
     THEN [exc |-> "ExcDimensionMismatch",
           args |-> <<Len(b[m]), n_pols(d)>>, bufs |-> b, invoked |-> {}]
     ELSE EvalLoop(d, 0, n_pols(d) - 1, p, Started(b))

\* evaluate with the size checks made after the loop.
evaluate_late_check(d, p, b) ==
  LET m == FirstMismatch(d, b)
      r == EvalLoop(d, 0, n_pols(d), p, Started(b))
  IN IF m # "none"
     THEN [exc |-> "ExcDimensionMismatch",
           args |-> <<Len(b[m]), n_pols(d)>>, bufs |-> r.bufs,
           invoked |-> r.invoked]
     ELSE r

\* PolynomialsRannacherTurek<dim>::evaluate(unit_point, values, grads,
\* grad_grads, third_derivatives, fourth_derivatives)
evaluate(d, p, b) ==
  LET m == FirstMismatch(d, b)
  IN IF m # "none"
     THEN [exc |-> "ExcDimensionMismatch",
           args |-> <<Len(b[m]), n_pols(d)>>, bufs |-> b, invoked |-> {}]
     ELSE EvalLoop(d, 0, n_pols(d), p, Started(b))

\* ------------------------------------------------------- basis actions
\* Buffer sizes a caller passes: empty, exact, one too many.
BufSizes(d) == {0, n_pols(d), n_pols(d) + 1}

NoBufs == [name \in BufNames |-> <<>>]

MakeBufs(d, sz, f) ==
  [name \in BufNames |-> [k \in 1 .. sz[name] |-> FillTensor(BufRank(name), d, f)]]

\* No call on the basis is under way.
PolyIdle ==
  /\ op = "none"
  /\ dim = 2
  /\ idx = 0
  /\ pt = <<>>
  /\ exc = "none"
  /\ exc_args = <<>>
  /\ ret = <<>>
  /\ bufs_in = NoBufs
  /\ bufs = NoBufs
  /\ invoked = {}

Construct ==
  /\ op = "none"
  /\ \E d \in Dims :
       LET r == ctor(d)
       IN /\ op' = "construct"
          /\ dim' = d
          /\ idx' = 0
          /\ pt' = <<>>
          /\ exc' = r.exc
          /\ exc_args' = r.args
          /\ ret' = r.val
          /\ bufs_in' = NoBufs
          /\ bufs' = NoBufs
          /\ invoked' = {}
          /\ UNCHANGED <<patchvars, restvars>>

ComputeValue ==
  /\ op = "none"
  /\ \E d \in Dims : \E i \in Indices : \E p \in Points(d) :
       LET r == compute_value(d, i, p)
       IN /\ op' = "compute_value"
          /\ dim' = d
          /\ idx' = i
          /\ pt' = p
          /\ exc' = r.exc
          /\ exc_args' = r.args
          /\ ret' = r.val
          /\ bufs_in' = NoBufs
          /\ bufs' = NoBufs
          /\ invoked' = {}
          /\ UNCHANGED <<patchvars, restvars>>

ComputeGrad ==
  /\ op = "none"
  /\ \E d \in Dims : \E i \in Indices : \E p \in Points(d) :
       LET r == compute_grad(d, i, p)
       IN /\ op' = "compute_grad"
          /\ dim' = d
          /\ idx' = i
          /\ pt' = p
          /\ exc' = r.exc
          /\ exc_args' = r.args
          /\ ret' = r.val
          /\ bufs_in' = NoBufs
          /\ bufs' = NoBufs
          /\ invoked' = {}
          /\ UNCHANGED <<patchvars, restvars>>

ComputeGradGrad ==
  /\ op = "none"
  /\ \E d \in Dims : \E i \in Indices : \E p \in Points(d) :
       LET r == compute_grad_grad(d, i, p)
       IN /\ op' = "compute_grad_grad"
          /\ dim' = d
          /\ idx' = i
          /\ pt' = p
          /\ exc' = r.exc
          /\ exc_args' = r.args
          /\ ret' = r.val
          /\ bufs_in' = NoBufs
          /\ bufs' = NoBufs
          /\ invoked' = {}
          /\ UNCHANGED <<patchvars, restvars>>

Evaluate ==
  /\ op = "none"
  /\ \E d \in Dims : \E p \in EvalPoints(d) :
     \E sz \in [BufNames -> BufSizes(d)] : \E f \in Fills :
       LET b == MakeBufs(d, sz, f)
           r == evaluate(d, p, b)
       IN /\ op' = "evaluate"
          /\ dim' = d
          /\ idx' = 0
          /\ pt' = p
          /\ exc' = r.exc
          /\ exc_args' = r.args
          /\ ret' = <<>>
          /\ bufs_in' = b
          /\ bufs' = r.bufs
          /\ invoked' = r.invoked
          /\ UNCHANGED <<patchvars, restvars>>

\* The caller is done with the results of the call; the basis keeps no
\* state between calls.
PolyDone ==
  /\ op # "none"
  /\ op' = "none"
  /\ dim' = 2
  /\ idx' = 0
  /\ pt' = <<>>
  /\ exc' = "none"
  /\ exc_args' = <<>>
  /\ ret' = <<>>
  /\ bufs_in' = NoBufs
  /\ bufs' = NoBufs
  /\ invoked' = {}
  /\ UNCHANGED <<patchvars, restvars>>

PolyNext ==
  \/ Construct
  \/ ComputeValue
  \/ ComputeGrad
  \/ ComputeGradGrad
  \/ Evaluate
  \/ PolyDone

vars == <<polyvars, patchvars, restvars>>

\* ------------------------------------------------------- basis objects
\* The three sample points (0, 0), (0.3, -0.2) and (1, 1).
SamplePoints == {<<0, 0>>, <<3, -2>>, <<10, 10>>}

Handles == 1 .. MaxObjs

\* The object the constructor makes: ScalarPolynomialsBase<dim>(2, 2 * dim).
NewBasis(d) == [alive |-> TRUE, dim |-> d, degree |-> 2, n |-> ctor(d).val]

Methods == {"compute_value", "compute_grad", "compute_grad_grad", "evaluate"}

\* A member call on the object o; evaluate is passed vectors of o.n()
\* entries.
call(o, m, i, p) ==
  CASE m = "compute_value" -> compute_value(o.dim, i, p)
    [] m = "compute_grad" -> compute_grad(o.dim, i, p)
    [] m = "compute_grad_grad" -> compute_grad_grad(o.dim, i, p)
    [] m = "evaluate" ->
         evaluate(o.dim, p, MakeBufs(o.dim, [name \in BufNames |-> o.n], 0))

\* A clone that hands out the object it was called on.
clone_alias(hp, id) == [heap |-> hp, id |-> id]

\* clone(): std::make_unique<PolynomialsRannacherTurek<dim>>(*this), a new
\* object copy-constructed from this one.
clone(hp, id) ==
  [heap |-> Append(hp, [hp[id] EXCEPT !.alive = TRUE]), id |-> Len(hp) + 1]

NoUse == [h |-> 0, op |-> "none", idx |-> 0, pt |-> <<>>, out |-> Return(<<>>)]

CloneIdle ==
  /\ heap = <<>>
  /\ ptr = [h \in Handles |-> 0]
  /\ used = NoUse

Clone ==
  /\ used = NoUse
  /\ Len(heap) < MaxObjs
  /\ \E h \in Handles, g \in Handles :
       /\ ptr[h] # 0
       /\ ptr[g] = 0
       /\ LET r == clone(heap, ptr[h])
          IN /\ heap' = r.heap
             /\ ptr' = [ptr EXCEPT ![g] = r.id]
  /\ UNCHANGED <<used, polyvars, patchvars, matvars, mcp, lin, concvars, precvars>>

\* The owning pointer h goes away and deletes its object.
Destroy ==
  /\ used = NoUse
  /\ \E h \in Handles :
       /\ ptr[h] # 0
       /\ heap' = [heap EXCEPT ![ptr[h]].alive = FALSE]
       /\ ptr' = [ptr EXCEPT ![h] = 0]
  /\ UNCHANGED <<used, polyvars, patchvars, matvars, mcp, lin, concvars, precvars>>

Use ==
  /\ used = NoUse
  /\ \E h \in Handles, m \in Methods, i \in Indices, p \in SamplePoints :
       /\ ptr[h] # 0
       /\ (m = "evaluate" => i = 0)
       /\ used' = [h |-> h, op |-> m, idx |-> i, pt |-> p,
                   out |-> call(heap[ptr[h]], m, i, p)]
  /\ UNCHANGED <<heap, ptr, polyvars, patchvars, matvars, mcp, lin, concvars, precvars>>

UseDone ==
  /\ used # NoUse
  /\ used' = NoUse
  /\ UNCHANGED <<heap, ptr, polyvars, patchvars, matvars, mcp, lin, concvars, precvars>>

CloneNext ==
  \/ Clone
  \/ Destroy
  \/ Use
  \/ UseDone


\* ----------------------------------------------- sampling two functions
\* The coordinates (in tenths) of the points the samples are drawn from:
\* those of the three sample points and 0.5 and 0.7.
LinCoords == SampleCoords \cup {5, 7}

LinPoints == {<<x, y>> : x \in LinCoords, y \in LinCoords}

\* The order in which the points of a sample are listed.
Before(p, q) == p[1] < q[1] \/ (p[1] = q[1] /\ p[2] < q[2])

NoSample ==
  [drawn |-> FALSE, i |-> 0, j |-> 0, pts |-> <<>>, vi |-> <<>>, vj |-> <<>>]

LinIdle == lin = NoSample

\* compute_value(i, .) and compute_value(j, .) are evaluated at three
\* distinct points.
DrawSample ==
  /\ ~lin.drawn
  /\ \E i \in 0 .. 3, j \in 0 .. 3 :
       /\ i # j
       /\ \E p1 \in LinPoints, p2 \in LinPoints :
            /\ Before(p1, p2)
            /\ \E p3 \in LinPoints :
                 /\ Before(p2, p3)
                 /\ LET ps == <<p1, p2, p3>>
                    IN lin' = [drawn |-> TRUE, i |-> i, j |-> j, pts |-> ps,
                               vi |-> [k \in 1 .. 3 |->
                                         compute_value(2, i, ps[k]).val],
                               vj |-> [k \in 1 .. 3 |->
                                         compute_value(2, j, ps[k]).val]]
  /\ UNCHANGED <<polyvars, patchvars, matvars, mcp, clonevars, concvars, precvars>>

LinNext == DrawSample

\* ------------------------------------------------------ concurrent calls
\* Threads call the member functions of one shared object without any
\* synchronisation; a step of a thread is one statement of the member
\* function it is in.
Threads == 1 .. MaxThreads

ConcIndices == {1, 4}

ConcPoints == {<<0, 0>>, <<3, -2>>}

\* The vectors a thread passes to evaluate are its own.
ConcBufs(o) == MakeBufs(o.dim, [name \in BufNames |-> o.n], 0)

\* compute_value, compute_grad or compute_grad_grad on the object o: the
\* object after the call and the result.
compute_on(o, m, i, p) == [obj |-> o, out |-> call(o, m, i, p)]

\* The head of evaluate on the object o: n_pols = this->n() and the five
\* size checks.
evaluate_enter(o, b) ==
  LET m == FirstMismatch(o.dim, b)
  IN [obj |-> o,
      n |-> o.n,
      st |-> IF m # "none"
             THEN [exc |-> "ExcDimensionMismatch",
                   args |-> <<Len(b[m]), o.n>>, bufs |-> b, invoked |-> {}]
             ELSE Started(b)]

\* One iteration of a loop that also counts, in a member of the object,
\* the iterations made on it.
evaluate_step_counting(o, k, p, st) ==
  [obj |-> [o EXCEPT !.degree = @ + 1], st |-> EvalBody(o.dim, k, p, st)]

\* One iteration of the loop of evaluate on the object o, for the local
\* index k.
evaluate_step(o, k, p, st) == [obj |-> o, st |-> EvalBody(o.dim, k, p, st)]

NoThread ==
  [at |-> "idle", m |-> "none", i |-> 0, p |-> <<>>, n |-> 0, k |-> 0,
   st |-> Started(NoBufs), out |-> Return(<<>>)]

ConcIdle ==
  /\ obj = NewBasis(2)
  /\ thr = [t \in Threads |-> NoThread]

\* Thread t enters a member function.
ConcCall ==
  \E t \in Threads, m \in Methods, i \in ConcIndices, p \in ConcPoints :
    /\ thr[t].at = "idle"
    /\ (m = "evaluate" => i = 1)
    /\ IF m = "evaluate"
       THEN LET r == evaluate_enter(obj, ConcBufs(obj))
            IN /\ obj' = r.obj
               /\ thr' = [thr EXCEPT ![t] =
                            [NoThread EXCEPT !.at = "run", !.m = m, !.i = i,
                                             !.p = p, !.n = r.n, !.st = r.st]]
       ELSE /\ obj' = obj
            /\ thr' = [thr EXCEPT ![t] =
                         [NoThread EXCEPT !.at = "run", !.m = m, !.i = i,
                                          !.p = p]]
    /\ UNCHANGED <<polyvars, patchvars, matvars, mcp, clonevars, lin, precvars>>

\* Thread t executes the next statement of the member function it is in.
ConcStep ==
  \E t \in Threads :
    /\ thr[t].at = "run"
    /\ IF thr[t].m # "evaluate"
       THEN LET r == compute_on(obj, thr[t].m, thr[t].i, thr[t].p)
            IN /\ obj' = r.obj
               /\ thr' = [thr EXCEPT ![t].at = "done", ![t].out = r.out]
       ELSE IF thr[t].st.exc # "none" \/ thr[t].k >= thr[t].n
       THEN /\ obj' = obj
            /\ thr' = [thr EXCEPT ![t].at = "done", ![t].out = thr[t].st]
       ELSE LET r == evaluate_step(obj, thr[t].k, thr[t].p, thr[t].st)
            IN /\ obj' = r.obj
               /\ thr' = [thr EXCEPT ![t].st = r.st, ![t].k = @ + 1]
    /\ UNCHANGED <<polyvars, patchvars, matvars, mcp, clonevars, lin, precvars>>

\* The caller on thread t is done with the result.
ConcReturn ==
  \E t \in Threads :
    /\ thr[t].at = "done"
    /\ thr' = [thr EXCEPT ![t] = NoThread]
    /\ UNCHANGED <<obj, polyvars, patchvars, matvars, mcp, clonevars, lin,
                   precvars>>

ConcNext ==
  \/ ConcCall
  \/ ConcStep
  \/ ConcReturn

\* --------------------------------------------- Trilinos preconditioner
\* The Epetra operator is outside this code: its calls return 0 or an
\* error code, and a call of SetUseTranspose takes effect when it
\* returns 0.
Codes == {0, -1}

Sizes == 1 .. MaxSize

Overloads == {"MPI", "dealii", "distributed"}

\* Epetra_Operator::SetUseTranspose(x) returning rc.
SetUseTranspose(p, x, rc) == IF rc = 0 THEN [p EXCEPT !.use_transpose = x] ELSE p

\* The order in which ApplyInverse applies the operator p.
Mode(p) == IF p.use_transpose THEN "transposed" ELSE "plain"

\* The outcome of a member call: the operator after it, the exception it
\* ended with and the order in which ApplyInverse ran, if it ran.
Outcome(p, e, a) == [prec |-> p, exc |-> e, applied |-> a]

\* transpose() that sets the flag whatever its value.
transpose_set_only(p, rc) ==
  Outcome(SetUseTranspose(p, TRUE, rc),
          IF rc = 0 THEN "none" ELSE "ExcTrilinosError", "none")

\* PreconditionBase::transpose()
transpose(p, rc) ==
  IF ~p.use_transpose
  THEN Outcome(SetUseTranspose(p, TRUE, rc),
               IF rc = 0 THEN "none" ELSE "ExcTrilinosError", "none")
  ELSE Outcome(SetUseTranspose(p, FALSE, rc),
               IF rc = 0 THEN "none" ELSE "ExcTrilinosError", "none")

\* The two Asserts of the MPI::Vector overloads: the map of dst is the
\* range map of the operator, the map of src its domain map.
maps_MPI(p, dst, src) ==
  IF dst # p.range THEN "ExcNonMatchingMaps_dst"
  ELSE IF src # p.domain THEN "ExcNonMatchingMaps_src"
  ELSE "none"

\* The two AssertDimensions of the dealii::Vector and
\* LinearAlgebra::distributed::Vector overloads: the size of dst is that
\* of the domain map, the size of src that of the range map.
dimensions(p, dst, src) ==
  IF dst # p.domain THEN "ExcDimensionMismatch"
  ELSE IF src # p.range THEN "ExcDimensionMismatch"
  ELSE "none"

\* ApplyInverse(src, dst) returning rc, followed by AssertThrow(ierr == 0).
ApplyInverse(p, rc) ==
  Outcome(p, IF rc = 0 THEN "none" ELSE "ExcTrilinosError", Mode(p))

\* The statements of every Tvmult overload after its size checks:
\* SetUseTranspose(true) with its return value dropped, ApplyInverse,
\* AssertThrow, SetUseTranspose(false) with its return value dropped.
TransposedApply(p, rc_set, rc_apply, rc_reset) ==
  LET q == SetUseTranspose(p, TRUE, rc_set)
      r == ApplyInverse(q, rc_apply)
  IN IF r.exc # "none" THEN r
     ELSE Outcome(SetUseTranspose(q, FALSE, rc_reset), "none", r.applied)

\* PreconditionBase::vmult(MPI::Vector &dst, const MPI::Vector &src)
vmult_MPI(p, dst, src, rc_apply) ==
  LET c == maps_MPI(p, dst, src)
  IN IF c # "none" THEN Outcome(p, c, "none") ELSE ApplyInverse(p, rc_apply)

\* PreconditionBase::Tvmult(MPI::Vector &dst, const MPI::Vector &src)
Tvmult_MPI(p, dst, src, rc_set, rc_apply, rc_reset) ==
  LET c == maps_MPI(p, dst, src)
  IN IF c # "none" THEN Outcome(p, c, "none")
     ELSE TransposedApply(p, rc_set, rc_apply, rc_reset)

\* PreconditionBase::vmult(dealii::Vector<double> &dst, const ... &src)
vmult_dealii(p, dst, src, rc_apply) ==
  LET c == dimensions(p, dst, src)
  IN IF c # "none" THEN Outcome(p, c, "none") ELSE ApplyInverse(p, rc_apply)

\* PreconditionBase::Tvmult(dealii::Vector<double> &dst, const ... &src)
Tvmult_dealii(p, dst, src, rc_set, rc_apply, rc_reset) ==
  LET c == dimensions(p, dst, src)
  IN IF c # "none" THEN Outcome(p, c, "none")
     ELSE TransposedApply(p, rc_set, rc_apply, rc_reset)

\* PreconditionBase::vmult(LinearAlgebra::distributed::Vector<double> &dst,
\* const ... &src)
vmult_distributed(p, dst, src, rc_apply) ==
  LET c == dimensions(p, dst, src)
  IN IF c # "none" THEN Outcome(p, c, "none") ELSE ApplyInverse(p, rc_apply)

\* PreconditionBase::Tvmult(LinearAlgebra::distributed::Vector<double> &dst,
\* const ... &src)
Tvmult_distributed(p, dst, src, rc_set, rc_apply, rc_reset) ==
  LET c == dimensions(p, dst, src)
  IN IF c # "none" THEN Outcome(p, c, "none")
     ELSE TransposedApply(p, rc_set, rc_apply, rc_reset)

\* Overload resolution on the vector type.
vmult(ov, p, dst, src, rc_apply) ==
  CASE ov = "MPI" -> vmult_MPI(p, dst, src, rc_apply)
    [] ov = "dealii" -> vmult_dealii(p, dst, src, rc_apply)
    [] ov = "distributed" -> vmult_distributed(p, dst, src, rc_apply)

Tvmult(ov, p, dst, src, rc_set, rc_apply, rc_reset) ==
  CASE ov = "MPI" -> Tvmult_MPI(p, dst, src, rc_set, rc_apply, rc_reset)
    [] ov = "dealii" -> Tvmult_dealii(p, dst, src, rc_set, rc_apply, rc_reset)
    [] ov = "distributed" ->
         Tvmult_distributed(p, dst, src, rc_set, rc_apply, rc_reset)

\* An initialized preconditioner whose operator maps a vector of `domain`
\* entries to one of `range` entries; nothing has been called on it.
NewOperator(domain, range) ==
  [use_transpose |-> FALSE, domain |-> domain, range |-> range]

\* odd: transpose() has been called an odd number of times; all_ok: every
\* call so far returned normally; all_zero: every call of the Epetra
\* operator so far returned 0; in_run, run_start, run_odd: the calls made
\* last are a run of transpose() calls that returned normally, the flag
\* before the first of them, and whether their number is odd.
NoHist ==
  [odd |-> FALSE, all_ok |-> TRUE, all_zero |-> TRUE,
   in_run |-> FALSE, run_start |-> FALSE, run_odd |-> FALSE]

\* rc_set and rc_reset are the codes the two SetUseTranspose calls of a
\* Tvmult returned (0 for a call that was not made).
NoPCall ==
  [name |-> "none", ov |-> "none", dst |-> 0, src |-> 0, before |-> FALSE,
   rc_set |-> 0, rc_reset |-> 0, exc |-> "none", applied |-> "none"]

PrecIdle ==
  /\ prec = NewOperator(1, 1)
  /\ hist = NoHist
  /\ pcall = NoPCall

Transpose ==
  \E rc \in Codes :
    LET r == transpose(prec, rc)
    IN /\ prec' = r.prec
       /\ hist' = [odd |-> ~hist.odd,
                   all_ok |-> hist.all_ok /\ r.exc = "none",
                   all_zero |-> hist.all_zero /\ rc = 0,
                   in_run |-> r.exc = "none",
                   run_start |-> IF hist.in_run THEN hist.run_start
                                 ELSE prec.use_transpose,
                   run_odd |-> IF r.exc # "none" THEN FALSE
                               ELSE IF hist.in_run THEN ~hist.run_odd
                               ELSE TRUE]
       /\ pcall' = [NoPCall EXCEPT !.name = "transpose",
                                   !.before = prec.use_transpose,
                                   !.exc = r.exc]
       /\ UNCHANGED <<polyvars, patchvars, matvars, mcp, clonevars, lin,
                      concvars>>

Vmult ==
  \E ov \in Overloads, dst \in Sizes, src \in Sizes, rc \in Codes :
    LET r == vmult(ov, prec, dst, src, rc)
    IN /\ r.applied = "none" => rc = 0
       /\ prec' = r.prec
       /\ hist' = [NoHist EXCEPT !.odd = hist.odd,
                                 !.all_ok = hist.all_ok /\ r.exc = "none",
                                 !.all_zero = hist.all_zero /\ rc = 0]
       /\ pcall' = [name |-> "vmult", ov |-> ov, dst |-> dst, src |-> src,
                    before |-> prec.use_transpose,
                    rc_set |-> 0, rc_reset |-> 0,
                    exc |-> r.exc, applied |-> r.applied]
       /\ UNCHANGED <<polyvars, patchvars, matvars, mcp, clonevars, lin,
                      concvars>>

TransposedVmult ==
  \E ov \in Overloads, dst \in Sizes, src \in Sizes :
  \E rc_set \in Codes, rc_apply \in Codes, rc_reset \in Codes :
    LET r == Tvmult(ov, prec, dst, src, rc_set, rc_apply, rc_reset)
    IN /\ r.applied = "none" => (rc_set = 0 /\ rc_apply = 0)
       /\ r.exc # "none" => rc_reset = 0
       /\ prec' = r.prec
       /\ hist' = [NoHist EXCEPT !.odd = hist.odd,
                                 !.all_ok = hist.all_ok /\ r.exc = "none",
                                 !.all_zero = /\ hist.all_zero
                                              /\ rc_set = 0
                                              /\ rc_apply = 0
                                              /\ rc_reset = 0]
       /\ pcall' = [name |-> "Tvmult", ov |-> ov, dst |-> dst, src |-> src,
                    before |-> prec.use_transpose,
                    rc_set |-> rc_set, rc_reset |-> rc_reset,
                    exc |-> r.exc, applied |-> r.applied]
       /\ UNCHANGED <<polyvars, patchvars, matvars, mcp, clonevars, lin,
                      concvars>>

PrecNext ==
  \/ Transpose
  \/ Vmult
  \/ TransposedVmult

\* --------------------------------------------------- the incidence matrix
\* Variants of add and compress that drop one rule of the contract each.
add_after_compress(sp, r, c) ==
  IF sp.exc # "none" THEN sp
  ELSE IF \E k \in 1 .. Len(sp.rows[r]) : sp.rows[r][k] = c THEN sp
  ELSE [sp EXCEPT !.rows[r] = Append(@, c)]

add_duplicates(sp, r, c) ==
  IF sp.exc # "none" THEN sp
  ELSE IF sp.compressed THEN [sp EXCEPT !.exc = "ExcContractViolation"]
  ELSE [sp EXCEPT !.rows[r] = Append(@, c)]

compress_unsorted(sp) ==
  IF sp.exc # "none" THEN sp
  ELSE [sp EXCEPT !.compressed = TRUE]

\* SparsityPattern(m, n, max_per_row): m empty rows, not compressed.
SparsityPattern(m, n, max_per_row) ==
  [n_rows |-> m, n_cols |-> n, max_per_row |-> max_per_row,
   rows |-> [r \in 0 .. m - 1 |-> <<>>],
   compressed |-> FALSE, exc |-> "none"]

InRow(sp, r, c) == \E k \in 1 .. Len(sp.rows[r]) : sp.rows[r][k] = c

\* SparsityPattern::add(row, col): only before compress(); adding a pair
\* that is already stored changes nothing.  An exception raised earlier
\* is still propagating.
add(sp, r, c) ==
  IF sp.exc # "none" THEN sp
  ELSE IF sp.compressed THEN [sp EXCEPT !.exc = "ExcContractViolation"]
  ELSE IF InRow(sp, r, c) THEN sp
  ELSE [sp EXCEPT !.rows[r] = Append(@, c)]

\* SparsityPattern::compress(): every row sorted by column index.
compress(sp) ==
  IF sp.exc # "none" THEN sp
  ELSE [sp EXCEPT
          !.rows = [r \in DOMAIN sp.rows |->
                      SortSeq(sp.rows[r], LAMBDA x, y : x < y)],
          !.compressed = TRUE]

\* for_each_entry(row, fn): the columns of the row in stored order; only
\* after compress().
for_each_entry(sp, r) ==
  IF sp.exc # "none" THEN Raise(sp.exc, <<>>)
  ELSE IF ~sp.compressed THEN Raise("ExcContractViolation", <<>>)
  ELSE Return(sp.rows[r])

\* ------------------------------------- the incidence matrix, used directly
\* A pattern of two rows is reserved and then driven through its interface
\* call by call.  mat is the object after the call, whatever the call did
\* to it; mat_call records the call, the object before it and its outcome.
MatRows == {0, 1}
MatCols == 0 .. MaxCols - 1

NoCall ==
  [name |-> "none", row |-> 0, col |-> 0,
   before |-> SparsityPattern(0, 0, 0), exc |-> "none", ret |-> <<>>]

MatIdle ==
  /\ mat = SparsityPattern(0, 0, 0)
  /\ mat_log = <<>>
  /\ mat_call = NoCall

Add ==
  /\ Len(mat_log) < MaxAdds
  /\ \E r \in MatRows, c \in MatCols :
       LET res == add(mat, r, c)
       IN /\ mat' = [res EXCEPT !.exc = "none"]
          /\ mat_log' = IF res.exc = "none" THEN Append(mat_log, <<r, c>>)
                        ELSE mat_log
          /\ mat_call' = [name |-> "add", row |-> r, col |-> c,
                          before |-> mat, exc |-> res.exc, ret |-> <<>>]
  /\ UNCHANGED <<polyvars, patchvars, mcp, clonevars, lin, concvars, precvars>>

Compress ==
  /\ LET res == compress(mat)
     IN /\ mat' = [res EXCEPT !.exc = "none"]
        /\ mat_call' = [name |-> "compress", row |-> 0, col |-> 0,
                        before |-> mat, exc |-> res.exc, ret |-> <<>>]
  /\ UNCHANGED <<mat_log, polyvars, patchvars, mcp, clonevars, lin, concvars, precvars>>

ForEachEntry ==
  /\ \E r \in MatRows :
       LET res == for_each_entry(mat, r)
       IN mat_call' = [name |-> "for_each_entry", row |-> r, col |-> 0,
                       before |-> mat, exc |-> res.exc, ret |-> res.val]
  /\ UNCHANGED <<mat, mat_log, polyvars, patchvars, mcp, clonevars, lin, concvars, precvars>>

MatNext ==
  \/ Add
  \/ Compress
  \/ ForEachEntry

\* ------------------------------------------------------- the dof handler
\* The triangulation: a row of n_coarse square cells on level 0, of which
\* those in refined have 2 x 2 children on level 1.  Child k of cell c is
\* the level-1 cell whose lower left vertex is (2 c + k % 2, k \div 2) on
\* the level-1 vertex grid.  The level-1 cells in nothing carry FE_Nothing
\* (hp: their active_fe_index selects the element without dofs); all other
\* cells carry fe.
FEs == {"FE_DGQ<2>(0)", "FE_Q<2>(1)", "FESystem<2>[FE_Q<2>(1)-FE_DGQ<2>(0)]"}
Numberings == {"ascending", "descending"}

Meshes ==
  {[n_coarse |-> nc, refined |-> rf, fe |-> f, numbering |-> nb,
    nothing |-> {}] :
     nc \in 1 .. MaxCoarse, rf \in SUBSET (0 .. MaxCoarse - 1),
     f \in FEs, nb \in Numberings}

ValidMesh(m) == m.refined # {} /\ m.refined \subseteq 0 .. m.n_coarse - 1

n_levels(m) == IF m.refined = {} THEN 1 ELSE 2

n_cells(m, lvl) ==
  IF lvl = 0 THEN m.n_coarse ELSE 4 * Cardinality(m.refined)

\* Every coarse cell taken as refined.
children_of_any(m, c) == <<0, 1, 2, 3>>

\* children_of(level - 1, cell)
children_of(m, c) == IF c \in m.refined THEN <<0, 1, 2, 3>> ELSE <<>>

\* The supports of the local dofs of level-1 cell (c, k), in local order:
\* a vertex <<"v", ix, iy>> or the cell interior <<"c", c, k>>.
Vertex(c, k, v) == <<"v", 2 * c + (k % 2) + (v % 2), (k \div 2) + (v \div 2)>>

\* The local supports as if every cell carried fe.
LocalSupports_ignoring_fe_index(m, c, k) ==
  LET vs == [v \in 1 .. 4 |-> Vertex(c, k, v - 1)]
  IN CASE m.fe = "FE_DGQ<2>(0)" -> <<<<"c", c, k>>>>
       [] m.fe = "FE_Q<2>(1)" -> vs
       [] OTHER -> Append(vs, <<"c", c, k>>)

LocalSupports(m, c, k) ==
  LET vs == [v \in 1 .. 4 |-> Vertex(c, k, v - 1)]
  IN CASE <<c, k>> \in m.nothing -> <<>>
       [] m.fe = "FE_DGQ<2>(0)" -> <<<<"c", c, k>>>>
       [] m.fe = "FE_Q<2>(1)" -> vs
       [] OTHER -> Append(vs, <<"c", c, k>>)

\* fe.dofs_per_cell of the element fe
dofs_per_cell(m) == Len(LocalSupports([m EXCEPT !.nothing = {}], 0, 0))

\* Every support that carries a level-1 dof.
Supports(m) ==
  UNION {{LocalSupports(m, c, k)[i] : i \in DOMAIN LocalSupports(m, c, k)} :
           c \in m.refined, k \in 0 .. 3}

\* n_dofs(level)
n_dofs(m, lvl) == Cardinality(Supports(m))

\* The place of a support in the enumeration of the level-1 dofs:
\* vertices column by column, then cell interiors.
Key(e) ==
  IF e[1] = "v" THEN 3 * e[2] + e[3]
  ELSE 3 * (2 * MaxCoarse + 3) + 4 * e[2] + e[3]

\* The level-1 index of the dof on support e.
DofIndex(m, e) ==
  LET before == Cardinality({x \in Supports(m) : Key(x) < Key(e)})
  IN IF m.numbering = "ascending" THEN before
     ELSE n_dofs(m, 1) - 1 - before

\* dofs_of_cell(level, cell): get_mg_dof_indices
dofs_of_cell(m, c, k) ==
  [i \in DOMAIN LocalSupports(m, c, k) |->
     DofIndex(m, LocalSupports(m, c, k)[i])]

\* Whether the dof on support e lies on a face between two children of c.
on_inner_face(e, c) ==
  e[1] = "v" /\ (e[2] = 2 * c + 1 \/ e[3] = 1)

\* is_on_patch_boundary(dof, cell, patch): on the outer boundary of the
\* patch of c.
is_on_patch_boundary(e, c) ==
  e[1] = "v" /\ (e[2] \in {2 * c, 2 * c + 2} \/ e[3] \in {0, 2})

\* The exclusion policy of the two flags.
excluded(e, c, interior_dofs_only, boundary_dofs) ==
  \/ interior_dofs_only /\ on_inner_face(e, c)
  \/ boundary_dofs /\ is_on_patch_boundary(e, c)

\* ------------------------------------------------------ the patch builder
\* The loop of make_child_patches over the local dofs of child k of cell
\* c, from local dof i on.
RECURSIVE patch_dofs_from(_, _, _, _, _, _, _)
patch_dofs_from(sp, m, a, b, c, k, i) ==
  IF i > Len(LocalSupports(m, c, k)) THEN sp
  ELSE IF excluded(LocalSupports(m, c, k)[i], c, a, b)
    THEN patch_dofs_from(sp, m, a, b, c, k, i + 1)
  ELSE LET added == add(sp, c, dofs_of_cell(m, c, k)[i])
       IN IF added.exc # "none" THEN added
          ELSE patch_dofs_from(added, m, a, b, c, k, i + 1)

\* The loop over the children of cell c, from child k on.
RECURSIVE patch_children_from(_, _, _, _, _, _)
patch_children_from(sp, m, a, b, c, k) ==
  IF k >= 4 THEN sp
  ELSE LET filled == patch_dofs_from(sp, m, a, b, c, k, 1)
       IN IF filled.exc # "none" THEN filled
          ELSE patch_children_from(filled, m, a, b, c, k + 1)

\* The loop over the coarse cells, from cell c on.
RECURSIVE child_patches_from(_, _, _, _, _)
child_patches_from(sp, m, a, b, c) ==
  IF c >= m.n_coarse THEN sp
  ELSE IF Len(children_of(m, c)) = 0
    THEN child_patches_from(sp, m, a, b, c + 1)
  ELSE LET filled == patch_children_from(sp, m, a, b, c, 0)
       IN IF filled.exc # "none" THEN filled
          ELSE child_patches_from(filled, m, a, b, c + 1)

\* make_child_patches without the check of its level argument.
make_child_patches_unchecked(sp, m, lvl, interior_dofs_only, boundary_dofs) ==
  child_patches_from(sp, m, interior_dofs_only, boundary_dofs, 0)

\* DoFTools::make_child_patches(block_list, dof_handler, level,
\* interior_dofs_only, boundary_dofs)
make_child_patches(sp, m, lvl, interior_dofs_only, boundary_dofs) ==
  IF lvl = 0 THEN [sp EXCEPT !.exc = "ExcPrecondition"]
  ELSE child_patches_from(sp, m, interior_dofs_only, boundary_dofs, 0)

\* print_patches(bl): the rows as read back.
print_patches(sp) ==
  [r \in DOMAIN sp.rows |-> for_each_entry(sp, r).val]

\* ------------------------------------------------------ test_block_list
\* const unsigned int level = tr.n_levels() - 1;
level(m) == n_levels(m) - 1

\* A block whose pattern is sized by the cells of the fine level and the
\* dofs of the coarse one.
block_levels_swapped(m, interior_dofs_only, boundary_dofs) ==
  compress(
    make_child_patches(
      SparsityPattern(n_cells(m, level(m)), n_dofs(m, level(m) - 1),
                      4 * dofs_per_cell(m)),
      m, level(m), interior_dofs_only, boundary_dofs))

\* One block of test_block_list: the pattern is sized, filled by
\* make_child_patches with the flags given, and compressed.
block(m, interior_dofs_only, boundary_dofs) ==
  compress(
    make_child_patches(
      SparsityPattern(n_cells(m, level(m) - 1), n_dofs(m, level(m)),
                      4 * dofs_per_cell(m)),
      m, level(m), interior_dofs_only, boundary_dofs))

\* The first block run with the flags of the second.
block_ff_flags_swapped(m) == block(m, TRUE, FALSE)

block_ff(m) == block(m, FALSE, FALSE)
block_tf(m) == block(m, TRUE, FALSE)
block_tt(m) == block(m, TRUE, TRUE)

NoPattern == SparsityPattern(0, 0, 0)

PatchIdle ==
  /\ mesh = [n_coarse |-> 1, refined |-> {0}, fe |-> "FE_Q<2>(1)",
             numbering |-> "ascending", nothing |-> {}]
  /\ pc = "idle"
  /\ bl = NoPattern
  /\ deallog = <<>>

PatchInit ==
  /\ PolyIdle
  /\ MatIdle
  /\ CloneIdle
  /\ LinIdle
  /\ ConcIdle
  /\ PrecIdle
  /\ mcp = [called |-> FALSE, lvl |-> 0, interior_dofs_only |-> FALSE,
            boundary_dofs |-> FALSE, exc |-> "none",
            pattern |-> SparsityPattern(0, 0, 0)]
  /\ mesh \in {m \in Meshes : ValidMesh(m)}
  /\ pc = "ff"
  /\ bl = NoPattern
  /\ deallog = <<>>

BlockFF ==
  /\ pc = "ff"
  /\ bl' = block_ff(mesh)
  /\ deallog' = Append(deallog, [prefix |-> "ff", patches |-> print_patches(bl')])
  /\ pc' = "tf"
  /\ UNCHANGED <<mesh, polyvars, restvars>>

BlockTF ==
  /\ pc = "tf"
  /\ bl' = block_tf(mesh)
  /\ deallog' = Append(deallog, [prefix |-> "tf", patches |-> print_patches(bl')])
  /\ pc' = "tt"
  /\ UNCHANGED <<mesh, polyvars, restvars>>

BlockTT ==
  /\ pc = "tt"
  /\ bl' = block_tt(mesh)
  /\ deallog' = Append(deallog, [prefix |-> "tt", patches |-> print_patches(bl')])
  /\ pc' = "done"
  /\ UNCHANGED <<mesh, polyvars, restvars>>

PatchNext ==
  \/ BlockFF
  \/ BlockTF
  \/ BlockTT

\* ------------------------------------------ make_child_patches, directly
\* The meshes of the direct calls: those above, and those with the
\* hp::FECollection of FE_Q<2>(1) and FE_Nothing<2>() in which the first j
\* level-1 cells (the first j children of the first refined coarse cell)
\* are set to FE_Nothing.
first_refined(m) == CHOOSE c \in m.refined : \A d \in m.refined : c <= d

FirstCells(m, j) == {<<first_refined(m), k>> : k \in 0 .. j - 1}

BuildMeshes == {m \in Meshes : ValidMesh(m) /\ m.n_coarse <= MaxBuildCoarse}

HpMeshes ==
  BuildMeshes
    \cup {[m EXCEPT !.nothing = FirstCells(m, j)] :
            m \in {x \in BuildMeshes : x.fe = "FE_Q<2>(1)"}, j \in 1 .. 4}

NoBuild ==
  [called |-> FALSE, lvl |-> 0, interior_dofs_only |-> FALSE,
   boundary_dofs |-> FALSE, exc |-> "none", pattern |-> NoPattern]

BuildIdle == mcp = NoBuild

\* One call of make_child_patches on a pattern sized for the finest level,
\* with any level and any flag pair; the pattern is compressed when the
\* call returns.
MakeChildPatches ==
  /\ ~mcp.called
  /\ \E lvl \in 0 .. level(mesh), a \in BOOLEAN, b \in BOOLEAN :
       LET sized == SparsityPattern(n_cells(mesh, 0), n_dofs(mesh, 1),
                                    4 * dofs_per_cell(mesh))
           res == make_child_patches(sized, mesh, lvl, a, b)
       IN mcp' = [called |-> TRUE, lvl |-> lvl, interior_dofs_only |-> a,
                  boundary_dofs |-> b, exc |-> res.exc,
                  pattern |-> IF res.exc = "none" THEN compress(res)
                              ELSE [res EXCEPT !.exc = "none"]]
  /\ UNCHANGED <<polyvars, patchvars, matvars, clonevars, lin, concvars, precvars>>

BuildNext == MakeChildPatches

PolyInit ==
  /\ PolyIdle
  /\ PatchIdle
  /\ MatIdle
  /\ BuildIdle
  /\ CloneIdle
  /\ LinIdle
  /\ ConcIdle
  /\ PrecIdle

MatInit ==
  /\ PolyIdle
  /\ PatchIdle
  /\ BuildIdle
  /\ CloneIdle
  /\ LinIdle
  /\ ConcIdle
  /\ PrecIdle
  /\ mat = SparsityPattern(Cardinality(MatRows), MaxCols, MaxCols)
  /\ mat_log = <<>>
  /\ mat_call = NoCall

SpecPoly == PolyInit /\ [][PolyNext]_vars

SpecPatch == PatchInit /\ [][PatchNext]_vars

SpecMatrix == MatInit /\ [][MatNext]_vars

BuildInit ==
  /\ PolyIdle
  /\ MatIdle
  /\ CloneIdle
  /\ LinIdle
  /\ ConcIdle
  /\ PrecIdle
  /\ mesh \in HpMeshes
  /\ pc = "idle"
  /\ bl = NoPattern
  /\ deallog = <<>>
  /\ mcp = NoBuild

SpecBuilder == BuildInit /\ [][BuildNext]_vars

\* One basis has been constructed and is held by the first pointer.
CloneInit ==
  /\ PolyIdle
  /\ PatchIdle
  /\ MatIdle
  /\ BuildIdle
  /\ LinIdle
  /\ ConcIdle
  /\ PrecIdle
  /\ heap = <<NewBasis(2)>>
  /\ ptr = [h \in Handles |-> IF h = 1 THEN 1 ELSE 0]
  /\ used = NoUse

SpecClone == CloneInit /\ [][CloneNext]_vars

LinInit ==
  /\ PolyIdle
  /\ PatchIdle
  /\ MatIdle
  /\ BuildIdle
  /\ CloneIdle
  /\ ConcIdle
  /\ PrecIdle
  /\ lin = NoSample

SpecLin == LinInit /\ [][LinNext]_vars

ConcInit ==
  /\ PolyIdle
  /\ PatchIdle
  /\ MatIdle
  /\ BuildIdle
  /\ CloneIdle
  /\ LinIdle
  /\ ConcIdle
  /\ PrecIdle

SpecConc == ConcInit /\ [][ConcNext]_vars

PrecInit ==
  /\ PolyIdle
  /\ PatchIdle
  /\ MatIdle
  /\ BuildIdle
  /\ CloneIdle
  /\ LinIdle
  /\ ConcIdle
  /\ hist = NoHist
  /\ pcall = NoPCall
  /\ \E domain \in Sizes, range \in Sizes : prec = NewOperator(domain, range)

SpecPrec == PrecInit /\ [][PrecNext]_vars

\* ================================================================ claims
\* The coefficients <<c, a, b, q>> of the quadratic c + a x + b y +
\* q (x^2 - y^2) stated for basis function i, in hundredths.
StatedCoef(i) ==
  CASE i = 0 -> <<75, -250, 150, 150>>
    [] i = 1 -> <<-25, -50, 150, 150>>
    [] i = 2 -> <<75, 150, -250, -150>>
    [] i = 3 -> <<-25, 150, -50, -150>>

\* 40000 times the stated quadratic at the point p (coordinates in tenths).
StatedValue(i, p) ==
  LET c == StatedCoef(i)
  IN 400 * c[1] + 40 * c[2] * p[1] + 40 * c[3] * p[2]
       + 4 * c[4] * (p[1] * p[1] - p[2] * p[2])

Shift(p, k, h) == [p EXCEPT ![k] = p[k] + h]

\* C1: in dimension 2, compute_value(i, p) for i in 0..3 returns the stated
\* closed-form quadratic of p = (x, y): 0.75 - 2.5x + 1.5y + 1.5(x^2 - y^2)
\* for i = 0, and likewise for i = 1, 2, 3.
C1_ValueClosedForm ==
  (op = "compute_value" /\ dim = 2 /\ idx \in 0 .. 3)
    => (exc = "none" /\ 100 * ret = StatedValue(idx, pt))

C1_Witness ==
  /\ op = "compute_value" /\ dim = 2 /\ idx = 3 /\ pt = <<3, -2>>
  /\ exc = "none" /\ ret = 90

\* C2: compute_grad(i, p) is the exact gradient of compute_value(i, .) at
\* p: the central difference of compute_value with step 0.1 in each
\* coordinate equals the gradient component (values are in 1/400, gradient
\* components in 1/10, so f(x + h) - f(x - h) = 2 h g reads dV = 8 G).
C2_GradIsDerivativeOfValue ==
  (op = "compute_grad" /\ dim = 2 /\ idx \in 0 .. 3)
    => /\ exc = "none"
       /\ \A k \in 1 .. 2 :
            compute_value(2, idx, Shift(pt, k, 1)).val
              - compute_value(2, idx, Shift(pt, k, -1)).val = 8 * ret[k]

C2_Witness ==
  /\ op = "compute_grad" /\ dim = 2 /\ idx = 2 /\ exc = "none"
  /\ pt \in {<<0, 0>>, <<3, -2>>, <<10, 10>>}
  /\ ret[2] # 0

\* The stated Hessian of basis function i.
StatedHessian(i) ==
  IF i \in {0, 1} THEN <<<<3, 0>>, <<0, -3>>>> ELSE <<<<-3, 0>>, <<0, 3>>>>

\* C3: for i in 0..3 compute_grad_grad(i, p) is the same matrix at every
\* point, diagonal (3, -3) for i in {0, 1} and (-3, 3) for i in {2, 3} with
\* zero off-diagonal entries, and it is the derivative of compute_grad(i, .).
C3_HessianConstant ==
  (op = "compute_grad_grad" /\ dim = 2 /\ idx \in 0 .. 3)
    => /\ exc = "none"
       /\ ret = StatedHessian(idx)
       /\ \A q \in Points(2) : compute_grad_grad(2, idx, q).val = ret
       /\ \A a \in 1 .. 2 : \A b \in 1 .. 2 :
            compute_grad(2, idx, Shift(pt, b, 1)).val[a]
              - compute_grad(2, idx, pt).val[a] = ret[a][b]

C3_Witness ==
  /\ op = "compute_grad_grad" /\ dim = 2 /\ idx = 2 /\ exc = "none"
  /\ pt = <<10, 10>>
  /\ ret[1][1] = -3

\* C4: after evaluate returns, every entry of a non-empty third_derivatives
\* or fourth_derivatives buffer is the zero tensor, at every point.
C4_HigherDerivativesZero ==
  (op = "evaluate" /\ exc = "none")
    => /\ \A k \in 1 .. Len(bufs.third_derivatives) :
            bufs.third_derivatives[k] = ZeroTensor(3, dim)
       /\ \A k \in 1 .. Len(bufs.fourth_derivatives) :
            bufs.fourth_derivatives[k] = ZeroTensor(4, dim)

C4_Witness ==
  /\ op = "evaluate" /\ exc = "none" /\ dim = 2
  /\ Len(bufs.third_derivatives) = 4
  /\ Len(bufs.fourth_derivatives) = 4
  /\ bufs_in.third_derivatives[4] # ZeroTensor(3, 2)
  /\ bufs_in.fourth_derivatives[4] # ZeroTensor(4, 2)

\* The single-function operation that fills buffer name.
Single(name, d, i, p) ==
  CASE name = "values" -> compute_value(d, i, p)
    [] name = "grads" -> compute_grad(d, i, p)
    [] name = "grad_grads" -> compute_grad_grad(d, i, p)
    [] name = "third_derivatives" -> compute_derivative(3, d, i, p)
    [] name = "fourth_derivatives" -> compute_derivative(4, d, i, p)

\* C5: after evaluate returns in dimension 2, every non-empty buffer has
\* n = 4 entries and entry i holds the result of the corresponding
\* single-function operation for index i at the same point.
C5_EvaluateFillsAllEntries ==
  (op = "evaluate" /\ exc = "none" /\ dim = 2)
    => \A name \in BufNames :
         Len(bufs_in[name]) # 0
           => /\ Len(bufs[name]) = 4
              /\ \A i \in 0 .. 3 :
                   /\ Single(name, 2, i, pt).exc = "none"
                   /\ bufs[name][i + 1] = Single(name, 2, i, pt).val

C5_Witness ==
  /\ op = "evaluate" /\ exc = "none" /\ dim = 2 /\ pt = <<3, -2>>
  /\ \A name \in BufNames : Len(bufs[name]) = 4
  /\ bufs.values[4] = 90
  /\ bufs.grads[1] # bufs.grads[2]

Mismatched(name) ==
  Len(bufs_in[name]) # 0 /\ Len(bufs_in[name]) # n_pols(dim)

\* C6: when a non-empty buffer's size differs from n, evaluate ends with a
\* dimension-mismatch error carrying a mismatched size and n, and no buffer
\* entry has been modified.
C6_MismatchFailsBeforeWrites ==
  (op = "evaluate" /\ \E name \in BufNames : Mismatched(name))
    => /\ exc = "ExcDimensionMismatch"
       /\ exc_args[2] = n_pols(dim)
       /\ \E name \in BufNames :
            Mismatched(name) /\ exc_args[1] = Len(bufs_in[name])
       /\ bufs = bufs_in

C6_Witness ==
  /\ op = "evaluate" /\ dim = 2 /\ exc = "ExcDimensionMismatch"
  /\ Len(bufs_in.values) = 4
  /\ Len(bufs_in.grads) = 5
  /\ exc_args = <<5, 4>>
  /\ pt = <<10, 10>>

\* C7: compute_value and compute_grad called with an index outside
\* {0, 1, 2, 3} end with "not implemented" and return nothing.
C7_BadIndexNotImplemented ==
  (op \in {"compute_value", "compute_grad"} /\ idx \notin 0 .. 3)
    => (exc = "ExcNotImplemented" /\ ret = <<>>)

C7_Witness ==
  /\ op = "compute_value" /\ dim = 2 /\ idx = 4
  /\ exc = "ExcNotImplemented"

\* C8: compute_grad_grad called with an index outside {0, 1, 2, 3} fails;
\* it never returns a tensor for such an index.
C8_HessianBadIndexFails ==
  (op = "compute_grad_grad" /\ idx \notin 0 .. 3) => exc # "none"

\* C9: in a dimension other than 2 the constructor, compute_value,
\* compute_grad and compute_grad_grad each end with "not implemented" and
\* produce nothing.
C9_OtherDimensionNotImplemented ==
  (op \in {"construct", "compute_value", "compute_grad", "compute_grad_grad"}
     /\ dim # 2)
    => (exc = "ExcNotImplemented" /\ ret = <<>>)

C9_Witness ==
  /\ op = "compute_value" /\ dim = 3 /\ idx = 0
  /\ exc = "ExcNotImplemented"

\* The flags of the block that ran last, by the block that runs next.
BlockRan == pc \in {"tf", "tt", "done"}

InteriorDofsOnlyRan == pc \in {"tt", "done"}

BoundaryDofsRan == pc = "done"

\* The supports of the dofs of the children of coarse cell c.
ChildSupports(m, c) ==
  UNION {{LocalSupports(m, c, children_of(m, c)[j])[i] :
            i \in DOMAIN LocalSupports(m, c, children_of(m, c)[j])} :
           j \in 1 .. Len(children_of(m, c))}

\* The union of the children's dof indices minus the excluded dofs.
PatchDofs(m, c, a, b) ==
  {DofIndex(m, e) : e \in {x \in ChildSupports(m, c) : ~excluded(x, c, a, b)}}

\* C10: after make_child_patches and compress(), the row of every coarse
\* cell c is exactly the union of the level-L dof indices of c's children
\* minus the dofs the flags exclude, every index stored exactly once.
C10_RowIsUnionOfChildDofs ==
  BlockRan
    => /\ bl.exc = "none"
       /\ bl.compressed
       /\ \A c \in 0 .. mesh.n_coarse - 1 :
            LET want == PatchDofs(mesh, c, InteriorDofsOnlyRan, BoundaryDofsRan)
            IN /\ {bl.rows[c][j] : j \in 1 .. Len(bl.rows[c])} = want
               /\ Len(bl.rows[c]) = Cardinality(want)

C10_Witness ==
  /\ pc = "tt"
  /\ mesh.fe = "FE_Q<2>(1)" /\ mesh.n_coarse = 2 /\ mesh.refined = {0, 1}
  /\ Len(deallog[1].patches[0]) = 9
  /\ Len(bl.rows[0]) = 4
  /\ \E j \in 1 .. 9 : \E k \in 1 .. 9 :
       deallog[1].patches[0][j] = deallog[1].patches[1][k]

\* ------------------------------------------------ incidence matrix claims
\* The columns the pattern accepted for row r, in any order.
LogCols(r) ==
  {c \in MatCols : \E k \in 1 .. Len(mat_log) : mat_log[k] = <<r, c>>}

StrictlyAscending(s) == \A k \in 1 .. Len(s) - 1 : s[k] < s[k + 1]

Elems(s) == {s[k] : k \in DOMAIN s}

\* C11: the pattern follows populate -> compress -> read.  A step never
\* takes a compressed pattern back to uncompressed; add succeeds exactly
\* when the pattern is not yet compressed and for_each_entry exactly when
\* it is; an add after compress and a read before compress end in a
\* contract violation, leave the pattern as it was and return nothing.
C11_Lifecycle ==
  [][/\ mat.compressed => mat'.compressed
     /\ mat_call'.name = "add" =>
          IF mat.compressed
          THEN mat_call'.exc = "ExcContractViolation" /\ mat' = mat
          ELSE mat_call'.exc = "none"
     /\ mat_call'.name = "for_each_entry" =>
          IF mat.compressed
          THEN mat_call'.exc = "none"
          ELSE /\ mat_call'.exc = "ExcContractViolation"
               /\ mat_call'.ret = <<>>
               /\ mat' = mat]_vars

C11_Witness ==
  /\ mat_call.name = "add"
  /\ mat_call.before.compressed
  /\ mat_call.exc = "ExcContractViolation"
  /\ mat_log # <<>>

\* C12: adding a pair that is already present succeeds and changes nothing:
\* the compressed pattern with the duplicate add equals the one without it,
\* and after any sequence of adds every accepted pair is stored once in
\* the compressed row.
C12_DuplicateAddIdempotent ==
  /\ \A r \in MatRows :
       LET row == compress(mat).rows[r]
       IN /\ Elems(row) = LogCols(r)
          /\ Len(row) = Cardinality(LogCols(r))
  /\ (/\ mat_call.name = "add"
      /\ ~mat_call.before.compressed
      /\ InRow(mat_call.before, mat_call.row, mat_call.col))
       => /\ mat_call.exc = "none"
          /\ compress(mat) = compress(mat_call.before)

C12_Witness ==
  /\ mat_call.name = "add"
  /\ ~mat_call.before.compressed
  /\ InRow(mat_call.before, mat_call.row, mat_call.col)
  /\ Len(mat_log) = 3
  /\ mat_log[1] = mat_log[3]
  /\ mat_log[2] # mat_log[1]

\* C13: a successful for_each_entry returns the accepted columns of the row
\* in strictly ascending order, whatever the order of the adds, and a read
\* of a row that follows a read of the same row returns the same sequence.
C13_AscendingStableIteration ==
  [][(mat_call'.name = "for_each_entry" /\ mat_call'.exc = "none")
       => /\ StrictlyAscending(mat_call'.ret)
          /\ Elems(mat_call'.ret) = LogCols(mat_call'.row)
          /\ (/\ mat_call.name = "for_each_entry"
              /\ mat_call.exc = "none"
              /\ mat_call.row = mat_call'.row)
               => mat_call'.ret = mat_call.ret]_vars

C13_Witness ==
  /\ mat_call.name = "for_each_entry"
  /\ mat_call.row = 1
  /\ mat_log = <<<<1, 2>>, <<1, 0>>, <<1, 1>>>>
  /\ mat_call.ret = <<0, 1, 2>>

\* ---------------------------------------------------- patch builder claims
\* C14: after make_child_patches and compress(), the pattern has exactly
\* n_cells(level - 1) rows and n_dofs(level) columns, as reserved, and every
\* stored entry (r, c) has 0 <= r < n_cells(level - 1) and
\* 0 <= c < n_dofs(level).
C14_ShapeAsReserved ==
  BlockRan
    => /\ bl.exc = "none"
       /\ bl.compressed
       /\ bl.n_rows = n_cells(mesh, level(mesh) - 1)
       /\ bl.n_cols = n_dofs(mesh, level(mesh))
       /\ DOMAIN bl.rows = 0 .. n_cells(mesh, level(mesh) - 1) - 1
       /\ \A r \in DOMAIN bl.rows : \A k \in 1 .. Len(bl.rows[r]) :
            bl.rows[r][k] \in 0 .. n_dofs(mesh, level(mesh)) - 1

C14_Witness ==
  /\ pc = "tf"
  /\ mesh.n_coarse = 3
  /\ mesh.refined = {0, 2}
  /\ bl.n_rows = 3
  /\ \E k \in 1 .. Len(bl.rows[2]) : bl.rows[2][k] = bl.n_cols - 1
  /\ \E k \in 1 .. Len(bl.rows[0]) : bl.rows[0][k] = 0

\* The call of make_child_patches returned.
Built == mcp.called /\ mcp.exc = "none"

\* C15: make_child_patches called with level 0 fails with a precondition
\* violation and hands back no pattern: the caller's pattern is as empty
\* and uncompressed as it was passed in.
C15_LevelZeroFails ==
  (mcp.called /\ mcp.lvl = 0)
    => /\ mcp.exc = "ExcPrecondition"
       /\ ~mcp.pattern.compressed
       /\ \A r \in DOMAIN mcp.pattern.rows : mcp.pattern.rows[r] = <<>>

C15_Witness ==
  /\ mcp.called
  /\ mcp.lvl = 0
  /\ mcp.exc = "ExcPrecondition"
  /\ mesh.n_coarse = 2
  /\ mesh.refined = {0, 1}

\* C16: the row of a coarse cell without refined children is empty, under
\* each of the four flag combinations.
C16_UnrefinedCellEmptyRow ==
  Built
    => \A c \in 0 .. mesh.n_coarse - 1 :
         c \notin mesh.refined => mcp.pattern.rows[c] = <<>>

C16_Witness ==
  /\ Built
  /\ ~mcp.interior_dofs_only
  /\ mcp.boundary_dofs
  /\ mesh.n_coarse = 2
  /\ mesh.refined = {1}
  /\ mesh.nothing = {}
  /\ mcp.pattern.rows[0] = <<>>
  /\ mcp.pattern.rows[1] # <<>>

\* C17: every entry of a row is the index of a dof of a child of that
\* coarse cell that carries dofs; a child with FE_Nothing contributes
\* nothing, so a row holds dof 0 only if a dof-carrying child of the patch
\* owns dof 0, and the row of a patch of FE_Nothing children is empty.
C17_NothingChildAddsNoEntry ==
  Built
    => \A c \in 0 .. mesh.n_coarse - 1 :
         \A n \in 1 .. Len(mcp.pattern.rows[c]) :
           \E k \in 0 .. 3 :
             /\ <<c, k>> \notin mesh.nothing
             /\ \E i \in DOMAIN LocalSupports(mesh, c, k) :
                  DofIndex(mesh, LocalSupports(mesh, c, k)[i])
                    = mcp.pattern.rows[c][n]

C17_Witness ==
  /\ Built
  /\ ~mcp.interior_dofs_only
  /\ ~mcp.boundary_dofs
  /\ mesh.fe = "FE_Q<2>(1)"
  /\ mesh.numbering = "descending"
  /\ mesh.refined = {0, 1}
  /\ mesh.nothing = {<<0, 0>>, <<0, 1>>}
  /\ mcp.pattern.rows[0] # <<>>
  /\ mcp.pattern.rows[0][1] # 0
  /\ mcp.pattern.rows[1][1] = 0

\* ------------------------------------------------------------ clone claim
\* Every held object is alive and is held by one pointer only, and the
\* member call just made through a pointer, on whichever object and with
\* whichever index and point, gave what the constructed original gives.
CloneInv ==
  /\ \A h \in Handles :
       ptr[h] # 0 =>
         /\ heap[ptr[h]].alive
         /\ \A g \in Handles \ {h} : ptr[g] # ptr[h]
  /\ used.op # "none"
       => used.out = call(NewBasis(2), used.op, used.idx, used.pt)

\* C19: clone() returns a distinct object whose compute_value,
\* compute_grad, compute_grad_grad and evaluate results equal the
\* original's for every index and sample point, and no step (a later call
\* on, or the destruction of, another object) changes an object that is
\* still held.
C19_CloneIndependent ==
  /\ []CloneInv
  /\ [][\A h \in Handles :
          (ptr[h] # 0 /\ ptr'[h] # 0) => heap'[ptr'[h]] = heap[ptr[h]]]_vars

C19_Witness ==
  /\ ptr[1] = 0
  /\ ~heap[1].alive
  /\ ptr[2] = 2
  /\ heap[2].alive
  /\ used.h = 2
  /\ used.op = "compute_value"
  /\ used.idx = 3
  /\ used.pt = <<3, -2>>
  /\ used.out = Return(90)

\* ------------------------------------------------ linear independence
\* Some scalar c has a[k] = c * b[k] for every k (a and b are scaled alike).
Dependent(a, b) ==
  /\ \A k \in DOMAIN a : b[k] = 0 => a[k] = 0
  /\ \A k \in DOMAIN a, l \in DOMAIN a : a[k] * b[l] = a[l] * b[k]

NonCollinear(ps) ==
  (ps[2][1] - ps[1][1]) * (ps[3][2] - ps[1][2])
    # (ps[3][1] - ps[1][1]) * (ps[2][2] - ps[1][2])

\* C20 as stated: on every set of three non-collinear points no scalar c
\* has compute_value(i, p) = c * compute_value(j, p) at all its points.
C20_IndependentOnEveryTriple ==
  (lin.drawn /\ NonCollinear(lin.pts)) => ~Dependent(lin.vi, lin.vj)

\* C20, amended: for every pair i # j no scalar c has compute_value(i, p) =
\* c * compute_value(j, p) at all of the three sample points (0, 0),
\* (0.3, -0.2) and (1, 1), so the two functions are linearly independent.
C20_IndependentOnSamplePoints ==
  (lin.drawn /\ {lin.pts[k] : k \in 1 .. 3} = SamplePoints)
    => /\ NonCollinear(lin.pts)
       /\ ~Dependent(lin.vi, lin.vj)

C20_Witness ==
  /\ lin.drawn
  /\ lin.i = 0
  /\ lin.j = 2
  /\ lin.pts = <<<<0, 0>>, <<3, -2>>, <<10, 10>>>>
  /\ lin.vi = <<300, -90, -100>>
  /\ lin.vj = <<300, 650, -100>>

\* ------------------------------------------------------ skipped buffers
\* C24: every buffer passed to evaluate empty is still empty after the
\* call and its compute function was not invoked, whatever the sizes of the
\* other four buffers and however the call ended.
C24_EmptyBufferSkipped ==
  op = "evaluate"
    => \A name \in BufNames :
         Len(bufs_in[name]) = 0
           => /\ Len(bufs[name]) = 0
              /\ name \notin invoked

C24_Witness ==
  /\ op = "evaluate" /\ exc = "none" /\ dim = 2 /\ pt = <<3, -2>>
  /\ Len(bufs_in.values) = 0
  /\ Len(bufs_in.grad_grads) = 0
  /\ Len(bufs_in.fourth_derivatives) = 0
  /\ Len(bufs.grads) = 4
  /\ Len(bufs.third_derivatives) = 4
  /\ invoked = {"grads", "third_derivatives"}

\* ---------------------------------------------------- partition of unity
\* The result of the call just made for index idx, and the results of the
\* same member function for the three other indices at the same point.
ValueAt(j) == IF j = idx THEN ret ELSE compute_value(2, j, pt).val
GradAt(j) == IF j = idx THEN ret ELSE compute_grad(2, j, pt).val
HessianAt(j) == IF j = idx THEN ret ELSE compute_grad_grad(2, j, pt).val

\* C28: at every point the four values sum to 1 (400 in the scaled units),
\* the four gradients to the zero vector and the four Hessians to the zero
\* matrix.
C28_PartitionOfUnity ==
  (dim = 2 /\ idx \in 0 .. 3)
    => /\ op = "compute_value"
         => /\ exc = "none"
            /\ ValueAt(0) + ValueAt(1) + ValueAt(2) + ValueAt(3) = 400
       /\ op = "compute_grad"
         => /\ exc = "none"
            /\ \A k \in 1 .. 2 :
                 GradAt(0)[k] + GradAt(1)[k] + GradAt(2)[k] + GradAt(3)[k] = 0
       /\ op = "compute_grad_grad"
         => /\ exc = "none"
            /\ \A k, l \in 1 .. 2 :
                 HessianAt(0)[k][l] + HessianAt(1)[k][l]
                   + HessianAt(2)[k][l] + HessianAt(3)[k][l] = 0

C28_Witness ==
  /\ op = "compute_value" /\ dim = 2 /\ idx = 1 /\ pt = <<3, -2>>
  /\ ret = -250
  /\ ValueAt(0) = -90 /\ ValueAt(2) = 650 /\ ValueAt(3) = 90

\* ----------------------------------------------------------- face duality
\* The end points and the midpoint of face f of the unit square, in tenths:
\* 0 is x = 0, 1 is x = 1, 2 is y = 0, 3 is y = 1.
FaceNodes(f) ==
  IF f = 0 THEN <<<<0, 0>>, <<0, 5>>, <<0, 10>>>>
  ELSE IF f = 1 THEN <<<<10, 0>>, <<10, 5>>, <<10, 10>>>>
  ELSE IF f = 2 THEN <<<<0, 0>>, <<5, 0>>, <<10, 0>>>>
  ELSE <<<<0, 10>>, <<5, 10>>, <<10, 10>>>>

\* Six times the Simpson mean of the values v at the nodes of a face.
Simpson(v) == v[1] + 4 * v[2] + v[3]

\* C29: the Simpson mean of compute_value(i, .) over face f is 1 when
\* i = f and 0 otherwise (2400 is 6 * 1 in the scaled units).
C29_FaceDuality ==
  \A f \in 0 .. 3 :
    (lin.drawn /\ lin.pts = FaceNodes(f))
      => /\ Simpson(lin.vi) = IF lin.i = f THEN 2400 ELSE 0
         /\ Simpson(lin.vj) = IF lin.j = f THEN 2400 ELSE 0

C29_Witness ==
  /\ lin.drawn /\ lin.pts = FaceNodes(3) /\ lin.i = 3 /\ lin.j = 0
  /\ lin.vi = <<300, 450, 300>>
  /\ Simpson(lin.vi) = 2400
  /\ Simpson(lin.vj) = 0

\* --------------------------------------------------------------- purity
\* C21: whatever the interleaving of the threads' steps, no member call
\* changes the shared object, and every finished call has the result the
\* same call has on a freshly constructed object with no other thread
\* running.
C21_PureUnderInterleaving ==
  /\ obj = NewBasis(2)
  /\ \A t \in Threads :
       thr[t].at = "done"
         => thr[t].out = call(NewBasis(2), thr[t].m, thr[t].i, thr[t].p)

\* Two evaluate calls overlap: thread 1 has finished, having started while
\* thread 2 was (and still is) inside its loop.
C21_Witness ==
  /\ thr[1].at = "done" /\ thr[1].m = "evaluate" /\ thr[1].p = <<3, -2>>
  /\ thr[1].out.exc = "none"
  /\ thr[1].out.bufs.values = <<-90, -250, 650, 90>>
  /\ thr[2].at = "run" /\ thr[2].m = "evaluate" /\ thr[2].p = <<0, 0>>
  /\ thr[2].k = 2

\* ------------------------------------------------- preconditioner claims
\* C22: a transpose() that returns normally flips the use-transpose flag,
\* and after an even number of such calls in succession the flag is what
\* it was before the first of them.
C22_EvenTransposeRestores ==
  /\ (pcall.name = "transpose" /\ pcall.exc = "none")
       => prec.use_transpose = ~pcall.before
  /\ (hist.in_run /\ ~hist.run_odd) => prec.use_transpose = hist.run_start

C22_Witness ==
  /\ pcall.name = "transpose" /\ pcall.exc = "none"
  /\ pcall.before
  /\ hist.in_run /\ ~hist.run_odd
  /\ ~hist.run_start
  /\ ~prec.use_transpose

\* C23: when every call so far returned normally (and every call of the
\* Epetra operator returned 0), a vmult applies the operator in transposed
\* order exactly when transpose() has been called an odd number of times.
C23_VmultFollowsTransposeParity ==
  (hist.all_ok /\ hist.all_zero /\ pcall.name = "vmult" /\ pcall.exc = "none")
    => (pcall.applied = "transposed" <=> hist.odd)

\* C25: a Tvmult that returns normally (both of its SetUseTranspose calls
\* having returned 0) leaves the use-transpose flag as it was before the
\* call.
C25_TvmultRestoresFlag ==
  (/\ pcall.name = "Tvmult" /\ pcall.exc = "none"
   /\ pcall.rc_set = 0 /\ pcall.rc_reset = 0)
    => prec.use_transpose = pcall.before

\* C26: a Tvmult that throws ExcTrilinosError because ApplyInverse failed
\* (SetUseTranspose(true) having returned 0) leaves the use-transpose flag
\* as it was before the call.
C26_FailedTvmultRestoresFlag ==
  (pcall.name = "Tvmult" /\ pcall.exc = "ExcTrilinosError" /\ pcall.rc_set = 0)
    => prec.use_transpose = pcall.before

\* C27: a Tvmult that returns normally ran ApplyInverse in transposed
\* order, and a Tvmult whose SetUseTranspose(true) was rejected ends with
\* an error.
C27_TvmultAppliesTransposed ==
  pcall.name = "Tvmult"
    => /\ pcall.exc = "none" => pcall.applied = "transposed"
       /\ pcall.rc_set # 0 => pcall.exc # "none"

\* C30: every overload of vmult and Tvmult accepts exactly the vectors
\* with dst of the size of the range map and src of the size of the
\* domain map.
C30_SameSizePrecondition ==
  pcall.name \in {"vmult", "Tvmult"}
    => (pcall.applied # "none"
          <=> (pcall.dst = prec.range /\ pcall.src = prec.domain))

====
